---------------------------- MODULE Spec2Model ----------------------------
(***************************************************************************)
(* A model of dvitch's Module (src/src/dvitch/module.py): the three        *)
(* registries of a component, the attribute interception layer, the path   *)
(* resolver, the tree traversals, the training cascade and the three-tier  *)
(* forward dispatch.                                                       *)
(*                                                                         *)
(* Python objects are named by strings: components by the names in Comp,   *)
(* Parameter objects (boxes) by the names in Box.  Two references are the  *)
(* same object exactly when they carry the same name.  Every Python value  *)
(* is a record [k |-> its type, v |-> which one].                          *)
(***************************************************************************)
EXTENDS Naturals, Sequences, FiniteSets

\* ------------------------------------------------------------- bounds
\* Python's recursion limit, scaled down: a call chain this deep raises
\* RecursionError.
RecursionLimit == 5
\* The number of Parameter objects the heap may hold.
MaxBoxes == 2
\* The number of entries (registry entries and plain instance attributes)
\* all components together may hold.
MaxEntries == 3

\* ------------------------------------------------------------- values
Comp == {"R", "A", "B"}
BoxNames == <<"p1", "p2", "p3", "p4">>
Box == {BoxNames[i] : i \in 1..MaxBoxes}
Tensors == {"t1", "t2"}
Unallocated == "unallocated"

None == [k |-> "NoneType", v |-> "None"]
Tensor(t) == [k |-> "Tensor", v |-> t]
Param(b) == [k |-> "Parameter", v |-> b]
\* Parameter(t) built by the caller for this call: an object not yet on the heap
NewParam(t) == [k |-> "NewParameter", v |-> t]
Mod(c) == [k |-> "Module", v |-> c]
Bool(b) == [k |-> "bool", v |-> IF b THEN "True" ELSE "False"]
Str(s) == [k |-> "str", v |-> s]
Dict == [k |-> "dict", v |-> "{}"]
Method(n) == [k |-> "method", v |-> n]

IsParameter(v) == v.k \in {"Parameter", "NewParameter"}
IsModule(v) == v.k = "Module"
IsTensorLike(v) == v.k = "Tensor"
IsParameterLike(v) == IsParameter(v) \/ IsTensorLike(v) \/ v = None

\* ------------------------------------------------------------- errors
OK == "ok"
AssertionError == "AssertionError"
TypeError == "TypeError"
ValueError == "ValueError"
RecursionError == "RecursionError"
NotImplementedError == "NotImplementedError"
\* the AttributeErrors the code can raise, told apart by their message
AttributeNotFound == "AttributeError: object has no attribute"
NotInitialized == "AttributeError: Cannot assign before it has been initialized"
NoSetter == "AttributeError: property has no setter"
NoneAttribute == "AttributeError: 'NoneType' object has no attribute"
IsAttributeError(e) == e \in {AttributeNotFound, NotInitialized, NoSetter, NoneAttribute}

Ok(v) == [err |-> OK, val |-> v]
Raise(e) == [err |-> e, val |-> None]

\* ------------------------------------------------------------- OrderedDict
\* An OrderedDict is the sequence of its <<key, value>> items in insertion order.
Keys(od) == {od[i][1] : i \in DOMAIN od}
Has(od, key) == key \in Keys(od)
Idx(od, key) == CHOOSE i \in DOMAIN od : od[i][1] = key
Get(od, key) == od[Idx(od, key)][2]
Put(od, key, val) ==
    IF Has(od, key) THEN [od EXCEPT ![Idx(od, key)] = <<key, val>>]
    ELSE Append(od, <<key, val>>)
Pop(od, key) == SelectSeq(od, LAMBDA e : e[1] # key)

\* ------------------------------------------------------------- names
Properties == {"classname", "name", "props", "training"}
Methods == {"forward", "train"}
EmptyName == ""
DottedNames == {"x.y"}
HasDot(n) == n \in DottedNames
Join(prefix, key) == IF prefix = "" THEN key ELSE prefix \o "." \o key

\* ------------------------------------------------------------- state
VARIABLES
    inited,      \* inited[c]: Module.__init__ has run on c, so c's __dict__ holds
                 \* _parameters, _modules, _buffers and _training
    _parameters, \* _parameters[c]: the OrderedDict c._parameters
    _modules,    \* _modules[c]: the OrderedDict c._modules
    _buffers,    \* _buffers[c]: the OrderedDict c._buffers
    _training,   \* _training[c]: c._training
    attrs,       \* attrs[c]: the other entries of c.__dict__ (plain attributes)
    data,        \* data[b]: the tensor Parameter object b wraps, or Unallocated
    last,        \* the last call: [op, c, key, arg, err, ret]
    out,         \* what the last traversal yielded before it ended
    tiers,       \* tiers[t]: what the running component's forward_<t> does
    fpc,         \* where forward() stands
    calls,       \* the tier calls forward() has made, in order
    fret         \* forward()'s outcome

vars == <<inited, _parameters, _modules, _buffers, _training, attrs, data, last, out,
          tiers, fpc, calls, fret>>
regVars == <<inited, _parameters, _modules, _buffers, _training, attrs, data>>
fwdVars == <<tiers, fpc, calls, fret>>

Call(op, c, key, arg, err, ret) ==
    [op |-> op, c |-> c, key |-> key, arg |-> arg, err |-> err, ret |-> ret]

NumAllocated == Cardinality({b \in Box : data[b] # Unallocated})
FreshBox == BoxNames[NumAllocated + 1]
NumEntries(P, M, B, A) ==
    LET cs == <<"R", "A", "B">>
        n(c) == Len(P[c]) + Len(M[c]) + Len(B[c]) + Len(A[c])
    IN  n(cs[1]) + n(cs[2]) + n(cs[3])

\* ------------------------------------------------------------- attribute reads
\* Module.__getattr__(key), which Python calls when the normal lookup finds
\* nothing.  Each hasattr(self, "_parameters") is a getattr that, on a component
\* whose __init__ has not run, finds nothing either and re-enters __getattr__;
\* hasattr turns an AttributeError into False and lets any other error through.
RECURSIVE __getattr__(_, _, _)
Hasattr(c, attr, fuel) ==
    IF inited[c] THEN Ok(Bool(TRUE))
    ELSE LET r == __getattr__(c, attr, fuel)
         IN  IF r.err = OK THEN Ok(Bool(TRUE))
             ELSE IF IsAttributeError(r.err) THEN Ok(Bool(FALSE))
             ELSE r
__getattr__(c, key, fuel) ==
    IF fuel = 0 THEN Raise(RecursionError)
    ELSE LET hp == Hasattr(c, "_parameters", fuel - 1) IN
         IF hp.err # OK THEN hp
         ELSE IF hp.val = Bool(TRUE) /\ Has(_parameters[c], key)
              THEN Ok(Get(_parameters[c], key))
         ELSE LET hm == Hasattr(c, "_modules", fuel - 1) IN
         IF hm.err # OK THEN hm
         ELSE IF hm.val = Bool(TRUE) /\ Has(_modules[c], key)
              THEN Ok(Get(_modules[c], key))
         ELSE LET hb == Hasattr(c, "_buffers", fuel - 1) IN
         IF hb.err # OK THEN hb
         ELSE IF hb.val = Bool(TRUE) /\ Has(_buffers[c], key)
              THEN Ok(Get(_buffers[c], key))
         ELSE Raise(AttributeNotFound)

\* self._parameters, self._modules, self._buffers, self._training read inside a
\* method: found in __dict__ once __init__ has run, else left to __getattr__.
SelfRegistry(c, attr) ==
    IF inited[c] THEN Ok(None) ELSE __getattr__(c, attr, RecursionLimit)

\* The properties of the class (data descriptors: they win over __dict__).
PropertyGet(c, key) ==
    CASE key = "classname" -> Ok(Str("Module"))
      [] key = "name" -> Ok(Str(""))
      [] key = "props" -> Ok(Dict)
      [] key = "training" ->
            LET r == SelfRegistry(c, "_training")
            IN  IF r.err # OK THEN r ELSE Ok(Bool(_training[c]))

\* getattr(c, key): Python's lookup order around Module.__getattr__.
GetAttribute(c, key) ==
    IF key \in Properties THEN PropertyGet(c, key)
    ELSE IF Has(attrs[c], key) THEN Ok(Get(attrs[c], key))
    ELSE IF key \in Methods THEN Ok(Method(key))
    ELSE __getattr__(c, key, RecursionLimit)

\* hasattr(c, key)
HasAttribute(c, key) ==
    LET r == GetAttribute(c, key)
    IN  IF r.err = OK THEN Ok(Bool(TRUE))
        ELSE IF IsAttributeError(r.err) THEN Ok(Bool(FALSE))
        ELSE r

\* ------------------------------------------------------------- registration
\* The error register_parameter(name, v) on c ends with, OK when it registers.
RegisterParameterErr(c, name, v) ==
    IF name = EmptyName THEN AssertionError
    ELSE IF HasDot(name) THEN AssertionError
    ELSE IF ~IsParameterLike(v) THEN AssertionError
    ELSE LET regs == SelfRegistry(c, "_parameters") IN
         IF regs.err # OK THEN regs.err
         ELSE IF Has(_parameters[c], name) THEN AssertionError
         ELSE LET h == Hasattr(c, "_parameters", RecursionLimit) IN
              IF h.err # OK THEN h.err
              ELSE IF h.val = Bool(FALSE) THEN NotInitialized
              ELSE OK

\* Whether the call puts a new Parameter object on the heap: a bare tensor is
\* wrapped, a Parameter the caller has just built is stored.
Allocates(v) == IsTensorLike(v) \/ v.k = "NewParameter"
\* The value stored in the registry.
StoredParameter(v) == IF v = None \/ v.k = "Parameter" THEN v ELSE Param(FreshBox)

\* The error add_module(name, m) on c ends with.
AddModuleErr(c, name, m) ==
    IF name = EmptyName THEN AssertionError
    ELSE IF HasDot(name) THEN AssertionError
    ELSE IF ~(m = None \/ IsModule(m)) THEN AssertionError
    ELSE LET regs == SelfRegistry(c, "_modules") IN
         IF regs.err # OK THEN regs.err
         ELSE IF Has(_modules[c], name) THEN AssertionError
         ELSE LET h == Hasattr(c, "_modules", RecursionLimit) IN
              IF h.err # OK THEN h.err
              ELSE IF h.val = Bool(FALSE) THEN NotInitialized
              ELSE OK

\* The error register_buffer(name, v) on c ends with.
RegisterBufferErr(c, name, v) ==
    IF name = EmptyName THEN AssertionError
    ELSE IF HasDot(name) THEN AssertionError
    ELSE IF ~(v = None \/ IsTensorLike(v)) THEN AssertionError
    ELSE LET regs == SelfRegistry(c, "_buffers") IN
         IF regs.err # OK THEN regs.err
         ELSE IF Has(_buffers[c], name) THEN AssertionError
         ELSE LET h == Hasattr(c, "_buffers", RecursionLimit) IN
              IF h.err # OK THEN h.err
              ELSE IF h.val = Bool(FALSE) THEN NotInitialized
              ELSE OK

\* The error deregister_parameter / pop_module / deregister_buffer end with.
RemoveErr(c, attr, od, name) ==
    LET regs == SelfRegistry(c, attr) IN
    IF regs.err # OK THEN regs.err
    ELSE IF ~Has(od, name) THEN AssertionError
    ELSE OK

\* ------------------------------------------------------------- training cascade
\* The training setter: self._training = mode, then m.training = mode for every
\* direct child m, which runs the child's own setter.  Each of the two
\* assignments goes through Module.__setattr__, whose last branch looks the key
\* up in self._buffers before it stores; a bool is no buffer value.  The result
\* is the error the call ends with and the _training flags as it leaves them.
RECURSIVE SetattrTraining(_, _, _, _), Cascade(_, _, _, _, _)
\* A cascade that stores the flag of each direct child and stops there.
CascadeShallow(tr, c, i, mode, fuel) ==
    [err |-> OK,
     tr |-> [d \in Comp |->
               IF \E j \in i..Len(_modules[c]) : _modules[c][j][2] = Mod(d)
               THEN mode ELSE tr[d]]]
\* for m in self.modules(include_children=False): m.training = mode, from the
\* i-th child on.
Cascade(tr, c, i, mode, fuel) ==
    IF i > Len(_modules[c]) THEN [err |-> OK, tr |-> tr]
    ELSE LET m == _modules[c][i][2] IN
         IF ~IsModule(m) THEN [err |-> NoneAttribute, tr |-> tr]
         ELSE LET r == SetattrTraining(tr, m.v, mode, fuel - 1) IN
              IF r.err # OK THEN r ELSE Cascade(r.tr, c, i + 1, mode, fuel)
\* The setter's body on c.
TrainingSetter(tr, c, mode, fuel) ==
    IF Has(_buffers[c], "_training") THEN [err |-> TypeError, tr |-> tr]
    ELSE Cascade([tr EXCEPT ![c] = mode], c, 1, mode, fuel)
\* c.training = mode, as Module.__setattr__ handles it.
SetattrTraining(tr, c, mode, fuel) ==
    IF fuel = 0 THEN [err |-> RecursionError, tr |-> tr]
    ELSE LET regs == SelfRegistry(c, "_buffers") IN
         IF regs.err # OK THEN [err |-> regs.err, tr |-> tr]
         ELSE IF Has(_buffers[c], "training") THEN [err |-> TypeError, tr |-> tr]
         ELSE TrainingSetter(tr, c, mode, fuel)

\* ------------------------------------------------------------- attribute writes
Unchanged ==
    [err |-> OK, _parameters |-> _parameters, _modules |-> _modules,
     _buffers |-> _buffers, _training |-> _training, attrs |-> attrs, data |-> data]
Fails(e) == [Unchanged EXCEPT !.err = e]

\* The tensor a Parameter value wraps.
DataOf(v) == IF v.k = "NewParameter" THEN v.v ELSE data[v.v]

\* register_parameter(name, v) on c: the error and the state it leaves.
register_parameter(c, name, v) ==
    LET e == RegisterParameterErr(c, name, v) IN
    IF e # OK THEN Fails(e)
    ELSE [Unchanged EXCEPT
            !._parameters = [_parameters EXCEPT ![c] = Put(@, name, StoredParameter(v))],
            !.data = IF Allocates(v) THEN [data EXCEPT ![FreshBox] = v.v] ELSE data]

\* add_module(name, m) on c.
add_module(c, name, m) ==
    LET e == AddModuleErr(c, name, m) IN
    IF e # OK THEN Fails(e)
    ELSE [Unchanged EXCEPT !._modules = [_modules EXCEPT ![c] = Put(@, name, m)]]

\* register_buffer(name, v) on c.
register_buffer(c, name, v) ==
    LET e == RegisterBufferErr(c, name, v) IN
    IF e # OK THEN Fails(e)
    ELSE [Unchanged EXCEPT !._buffers = [_buffers EXCEPT ![c] = Put(@, name, v)]]

\* super().__setattr__(key, v): object.__setattr__, which hands a key that is a
\* property of the class to the property (only training has a setter) and
\* stores any other key in __dict__.
ObjectSetattr(c, key, v) ==
    IF key = "training" THEN
        LET r == TrainingSetter(_training, c, v = Bool(TRUE), RecursionLimit)
        IN  [Unchanged EXCEPT !.err = r.err, !._training = r.tr]
    ELSE IF key \in Properties THEN Fails(NoSetter)
    ELSE [Unchanged EXCEPT !.attrs = [attrs EXCEPT ![c] = Put(@, key, v)]]

\* Module.__setattr__(key, v) on c.
__setattr__(c, key, v) ==
    IF IsParameter(v) THEN
        LET regs == SelfRegistry(c, "_parameters") IN
        IF regs.err # OK THEN Fails(regs.err)
        ELSE IF Has(_parameters[c], key) THEN
            LET held == Get(_parameters[c], key) IN
            IF held = None THEN Fails(NoneAttribute)
            ELSE [Unchanged EXCEPT !.data = [data EXCEPT ![held.v] = DataOf(v)]]
        ELSE register_parameter(c, key, v)
    ELSE IF IsModule(v) THEN add_module(c, key, v)
    ELSE LET regs == SelfRegistry(c, "_buffers") IN
         IF regs.err # OK THEN Fails(regs.err)
         ELSE IF Has(_buffers[c], key) THEN
             IF v = None \/ IsTensorLike(v)
             THEN [Unchanged EXCEPT !._buffers = [_buffers EXCEPT ![c] = Put(@, key, v)]]
             ELSE Fails(TypeError)
         ELSE ObjectSetattr(c, key, v)

\* ------------------------------------------------------------- the calls
\* A call ends in the state `res` and is recorded in `last`.  The heap is
\* bounded: a call that would exceed the bounds is not taken.
Commit(res, call) ==
    /\ NumEntries(res._parameters, res._modules, res._buffers, res.attrs) <= MaxEntries
    /\ _parameters' = res._parameters
    /\ _modules' = res._modules
    /\ _buffers' = res._buffers
    /\ _training' = res._training
    /\ attrs' = res.attrs
    /\ data' = res.data
    /\ last' = call
    /\ out' = <<>>
    /\ UNCHANGED <<inited, tiers, fpc, calls, fret>>

HeapHasRoom(v) == Allocates(v) => NumAllocated < MaxBoxes

\* Module.__init__(*args, **kwargs) on the new object c.
ModuleInit(c, extra) ==
    /\ ~inited[c]
    /\ inited' = [inited EXCEPT ![c] = ~extra]
    /\ last' = Call("__init__", c, "", Bool(extra), IF extra THEN TypeError ELSE OK, None)
    /\ out' = <<>>
    /\ UNCHANGED <<_parameters, _modules, _buffers, _training, attrs, data>>
    /\ UNCHANGED fwdVars

RegisterParameter(c, name, v) ==
    /\ HeapHasRoom(v)
    /\ LET res == register_parameter(c, name, v)
       IN  Commit(res, Call("register_parameter", c, name, v, res.err, None))

DeregisterParameter(c, name) ==
    LET e == RemoveErr(c, "_parameters", _parameters[c], name)
        res == IF e # OK THEN Fails(e)
               ELSE [Unchanged EXCEPT !._parameters = [_parameters EXCEPT ![c] = Pop(@, name)]]
    IN  Commit(res, Call("deregister_parameter", c, name, None, e,
                         IF e = OK THEN Get(_parameters[c], name) ELSE None))

RegisterBuffer(c, name, v) ==
    LET res == register_buffer(c, name, v)
    IN  Commit(res, Call("register_buffer", c, name, v, res.err, None))

DeregisterBuffer(c, name) ==
    LET e == RemoveErr(c, "_buffers", _buffers[c], name)
        res == IF e # OK THEN Fails(e)
               ELSE [Unchanged EXCEPT !._buffers = [_buffers EXCEPT ![c] = Pop(@, name)]]
    IN  Commit(res, Call("deregister_buffer", c, name, None, e,
                         IF e = OK THEN Get(_buffers[c], name) ELSE None))

AddModule(c, name, m) ==
    LET res == add_module(c, name, m)
    IN  Commit(res, Call("add_module", c, name, m, res.err, None))

PopModule(c, name) ==
    LET e == RemoveErr(c, "_modules", _modules[c], name)
        res == IF e # OK THEN Fails(e)
               ELSE [Unchanged EXCEPT !._modules = [_modules EXCEPT ![c] = Pop(@, name)]]
    IN  Commit(res, Call("pop_module", c, name, None, e,
                         IF e = OK THEN Get(_modules[c], name) ELSE None))

\* c.key = v
SetAttr(c, key, v) ==
    /\ HeapHasRoom(v)
    /\ LET res == __setattr__(c, key, v)
       IN  Commit(res, Call("__setattr__", c, key, v, res.err, None))

\* getattr(c, key)
GetAttr(c, key) ==
    LET r == GetAttribute(c, key)
    IN  Commit(Unchanged, Call("getattr", c, key, None, r.err, r.val))

\* c.train(mode): self.training = mode
Train(c, mode) ==
    LET r == SetattrTraining(_training, c, mode, RecursionLimit)
    IN  Commit([Unchanged EXCEPT !.err = r.err, !._training = r.tr],
               Call("train", c, "training", Bool(mode), r.err, None))

\* ------------------------------------------------------------- initial states
NoCall == Call("none", "R", "", None, OK, None)
Empty == [c \in Comp |-> <<>>]
TierNames == <<"forward_nb", "forward_np", "forward_nm">>
\* Module's own tiers: each raises NotImplementedError.
BaseTiers == [t \in 1..3 |-> Raise(NotImplementedError)]

InitWith(constructed) ==
    /\ inited = [c \in Comp |-> constructed]
    /\ _parameters = Empty
    /\ _modules = Empty
    /\ _buffers = Empty
    /\ _training = [c \in Comp |-> FALSE]
    /\ attrs = Empty
    /\ data = [b \in Box |-> Unallocated]
    /\ last = NoCall
    /\ out = <<>>
    /\ tiers = BaseTiers
    /\ fpc = "idle"
    /\ calls = <<>>
    /\ fret = Raise(OK)

\* Objects whose constructors are still to run (a subclass constructor may use
\* the object before it calls Module.__init__).
InitNew == InitWith(FALSE)
\* Components after construction.
Init == InitWith(TRUE)

\* ------------------------------------------------------------- one component
\* The registries and the attribute layer of the component R, with A as the
\* component it is given as a child.
RegNames == {"w", "name"}
BadNames == {EmptyName, "x.y"}
BadInputs == {Str("s")}
AllocatedParams == {Param(b) : b \in {x \in Box : data[x] # Unallocated}}
ParamInputs == {None, Tensor("t1"), NewParam("t2")} \cup AllocatedParams
BufferInputs == {None, Tensor("t1")}
ModuleInputs == {None, Mod("A")}
PlainInputs == {Tensor("t2"), Str("s")}

NextReg ==
    \/ \E extra \in BOOLEAN : ModuleInit("R", extra)
    \/ \E n \in RegNames, v \in ParamInputs : RegisterParameter("R", n, v)
    \/ \E n \in BadNames : RegisterParameter("R", n, None)
    \/ \E v \in BadInputs : RegisterParameter("R", "w", v)
    \/ \E n \in RegNames : DeregisterParameter("R", n)
    \/ \E n \in RegNames, v \in BufferInputs : RegisterBuffer("R", n, v)
    \/ \E n \in RegNames : DeregisterBuffer("R", n)
    \/ \E n \in RegNames, m \in ModuleInputs : AddModule("R", n, m)
    \/ \E n \in RegNames : PopModule("R", n)
    \/ \E n \in RegNames, v \in ParamInputs \cup ModuleInputs \cup PlainInputs :
            SetAttr("R", n, v)
    \/ \E n \in RegNames : GetAttr("R", n)

SpecReg == InitNew /\ [][NextReg]_vars

\* C1: right after register_parameter(n, v) succeeds on c, for any valid name
\* n, getattr(c, n) returns the very value c's parameter registry holds under
\* n, also when n is a property of the class or a plain attribute of c.
C1_GetattrReturnsRegistered ==
    (last.op = "register_parameter" /\ last.err = OK)
        => GetAttribute(last.c, last.key) = Ok(Get(_parameters[last.c], last.key))

\* C2: assigning a Parameter p to a name the parameter registry already holds
\* (whatever it holds there, a box or a placeholder) leaves the registry as it
\* was and makes the entry a box that wraps p's data, no other box changing.
C2_ReassignUpdatesInPlace ==
    [][\A n \in RegNames, p \in ParamInputs :
          (IsParameter(p) /\ Has(_parameters["R"], n) /\ SetAttr("R", n, p))
            => /\ _parameters' = _parameters
               /\ Get(_parameters["R"], n).k = "Parameter"
               /\ data' = [data EXCEPT ![Get(_parameters["R"], n).v] = DataOf(p)]]_vars

\* C8: no name is in more than one of a component's three registries.
C8_OneRegistryPerName ==
    \A c \in Comp, n \in RegNames :
        Cardinality({r \in {"p", "m", "b"} :
                        \/ r = "p" /\ Has(_parameters[c], n)
                        \/ r = "m" /\ Has(_modules[c], n)
                        \/ r = "b" /\ Has(_buffers[c], n)}) <= 1

\* C9: a registration with a valid name and value on a component whose
\* __init__ has not run fails with the NotInitialized error and registers
\* nothing.
ValidRegistration ==
    /\ last.key \in RegNames
    /\ \/ last.op = "register_parameter" /\ IsParameterLike(last.arg)
       \/ last.op = "register_buffer" /\ (last.arg = None \/ IsTensorLike(last.arg))
       \/ last.op = "add_module" /\ (last.arg = None \/ IsModule(last.arg))
       \/ last.op = "__setattr__" /\ (IsParameter(last.arg) \/ IsModule(last.arg))
C9_NotInitializedBeforeInit ==
    (ValidRegistration /\ ~inited[last.c])
        => /\ last.err = NotInitialized
           /\ _parameters[last.c] = <<>> /\ _modules[last.c] = <<>> /\ _buffers[last.c] = <<>>

\* ------------------------------------------------------------- forward
\* What a tier of a subclass may do: raise NotImplementedError (not overridden),
\* return a tensor, or raise another error.
Behaviours ==
    {Raise(NotImplementedError), Ok(Tensor("t1")), Ok(Tensor("t2")),
     Raise(TypeError), Raise(ValueError)}
\* The arguments forward(params, buffs, inputs) hands to each tier.
TierArgs == <<<<"params", "inputs">>, <<"buffs", "inputs">>, <<"inputs">>>>

\* A forward that gives up on any error of a tier, not only NotImplementedError.
AfterTierCatchAll(i, r) ==
    IF r.err = OK THEN [fpc |-> "done", fret |-> r]
    ELSE IF i < 3 THEN [fpc |-> TierNames[i + 1], fret |-> Raise(OK)]
    ELSE [fpc |-> "done", fret |-> Raise(NotImplementedError)]
\* Where forward goes after its i-th try block, whose tier ended with r:
\* return r's value, pass on NotImplementedError, or let the error out.
AfterTier(i, r) ==
    IF r.err = OK THEN [fpc |-> "done", fret |-> r]
    ELSE IF r.err = NotImplementedError THEN
        IF i < 3 THEN [fpc |-> TierNames[i + 1], fret |-> Raise(OK)]
        ELSE [fpc |-> "done", fret |-> Raise(NotImplementedError)]
    ELSE [fpc |-> "done", fret |-> r]

\* forward(params, buffs, inputs) is called on a component whose tiers do tb.
CallForward(tb) ==
    /\ fpc \in {"idle", "done"}
    /\ tiers' = tb
    /\ fpc' = TierNames[1]
    /\ calls' = <<>>
    /\ fret' = Raise(OK)
    /\ UNCHANGED <<regVars, last, out>>

\* forward's i-th try block.
TryTier(i) ==
    /\ fpc = TierNames[i]
    /\ calls' = Append(calls, <<TierNames[i], TierArgs[i]>>)
    /\ LET next == AfterTier(i, tiers[i])
       IN  fpc' = next.fpc /\ fret' = next.fret
    /\ UNCHANGED <<tiers, regVars, last, out>>

NextFwd ==
    \/ \E tb \in [1..3 -> Behaviours] : CallForward(tb)
    \/ \E i \in 1..3 : TryTier(i)

SpecFwd == Init /\ [][NextFwd]_vars

\* The tiers that raise something other than NotImplementedError or return.
Decisive == {i \in 1..3 : tiers[i].err # NotImplementedError}
FirstDecisive == CHOOSE i \in Decisive : \A j \in Decisive : i <= j
Tried(n) == [j \in 1..n |-> <<TierNames[j], TierArgs[j]>>]

\* C7: forward tries forward_nb(params, inputs), forward_np(buffs, inputs),
\* forward_nm(inputs) in this order, a later tier only after every earlier one
\* raised NotImplementedError; it ends with the return value or the error of
\* the first tier that does not raise NotImplementedError, having called no
\* later tier, and raises NotImplementedError exactly when all three did.
C7_ForwardTiers ==
    /\ Len(calls) <= 3 /\ calls = Tried(Len(calls))
    /\ \A j \in 1..Len(calls) - 1 : tiers[j].err = NotImplementedError
    /\ fpc = "done" =>
         IF Decisive = {}
         THEN Len(calls) = 3 /\ fret = Raise(NotImplementedError)
         ELSE Len(calls) = FirstDecisive /\ fret = tiers[FirstDecisive]
\* forward has ended with an error other than NotImplementedError that its
\* second tier raised after the first declined.
C7_Witness ==
    /\ fpc = "done" /\ Len(calls) = 2
    /\ fret.err = TypeError /\ tiers[3].err = OK

\* ------------------------------------------------------------- the tree
\* The components a component holds in its child registry, and the components
\* reachable from a set of them through the child registries.
Children(c) == {_modules[c][i][2].v : i \in {j \in DOMAIN _modules[c] : IsModule(_modules[c][j][2])}}
RECURSIVE ReachFrom(_, _)
ReachFrom(S, n) ==
    IF n = 0 THEN S ELSE ReachFrom(S \cup UNION {Children(x) : x \in S}, n - 1)
SelfAndDescendants(c) == ReachFrom({c}, Cardinality(Comp))
Descendants(c) == ReachFrom(Children(c), Cardinality(Comp))
Acyclic == \A c \in Comp : c \notin Descendants(c)

ChildInputs == {None} \cup {Mod(c) : c \in Comp}
\* The child slots the trees are built from: R has two, A one, B is a leaf.
ChildSlots == {<<"R", "s">>, <<"R", "t">>, <<"A", "s">>}

\* Trees are built and their mode is set; the leaf may hold a buffer that is
\* called training.
NextTrain ==
    \/ \E sl \in ChildSlots, m \in ChildInputs : AddModule(sl[1], sl[2], m)
    \/ RegisterBuffer("B", "training", Tensor("t1"))
    \/ \E c \in Comp, mode \in BOOLEAN : Train(c, mode)

SpecTrain == Init /\ [][NextTrain]_vars

\* C6: when train(mode) on a component returns, training = mode holds on it
\* and on every component reachable from it through the child registries, at
\* any depth, and the mode of every other component is what it was.
C6_TrainCascades ==
    [][\A c \in Comp, mode \in BOOLEAN :
          (last'.op = "train" /\ last'.err = OK /\ Train(c, mode))
            => \A d \in Comp :
                 _training'[d] = IF d \in SelfAndDescendants(c) THEN mode ELSE _training[d]]_vars
\* train(True) has returned on a component with a descendant that is not its
\* direct child, and that descendant is in training mode.
C6_Witness ==
    /\ last.op = "train" /\ last.err = OK /\ last.arg = Bool(TRUE)
    /\ \E d \in Descendants(last.c) : d \notin Children(last.c) /\ d # last.c /\ _training[d]

\* ------------------------------------------------------------- traversal
\* What a generator gives: the items it yielded and the error that ended it
\* (OK when it was exhausted).
Yield(e, items) == [err |-> e, val |-> items]

\* named_modules(prefix, include_self, include_children) on c.  A child that is
\* descended into is asked for its own named_modules, which None does not have.
RECURSIVE named_modules(_, _, _, _, _), WalkChildren(_, _, _, _, _)
\* for key, module in self._modules.items(), from the i-th item on.
WalkChildren(c, prefix, i, include_children, fuel) ==
    IF i > Len(_modules[c]) THEN Yield(OK, <<>>)
    ELSE LET module == _modules[c][i][2]
             module_prefix == Join(prefix, _modules[c][i][1])
             sub == IF include_children
                    THEN IF ~IsModule(module) THEN Yield(NoneAttribute, <<>>)
                         ELSE named_modules(module.v, module_prefix, TRUE, TRUE, fuel - 1)
                    ELSE Yield(OK, <<<<module_prefix, module>>>>)
         IN  IF sub.err # OK THEN sub
             ELSE LET rest == WalkChildren(c, prefix, i + 1, include_children, fuel)
                  IN  Yield(rest.err, sub.val \o rest.val)
named_modules(c, prefix, include_self, include_children, fuel) ==
    IF fuel = 0 THEN Yield(RecursionError, <<>>)
    ELSE LET first == IF include_self THEN <<<<prefix, Mod(c)>>>> ELSE <<>>
             regs == SelfRegistry(c, "_modules")
         IN  IF regs.err # OK THEN Yield(regs.err, first)
             ELSE LET rest == WalkChildren(c, prefix, 1, include_children, fuel)
                  IN  Yield(rest.err, first \o rest.val)

\* The loop of _named_members over the (module_prefix, module) pairs that
\* named_modules yields, from the i-th pair on: attr is the registry that
\* get_members_fn reads with getattr(module, attr).
RECURSIVE MembersOf(_, _, _)
MembersOf(pairs, attr, i) ==
    IF i > Len(pairs) THEN Yield(OK, <<>>)
    ELSE LET module == pairs[i][2] IN
         IF ~IsModule(module) THEN Yield(NoneAttribute, <<>>)
         ELSE LET regs == SelfRegistry(module.v, attr) IN
              IF regs.err # OK THEN Yield(regs.err, <<>>)
              ELSE LET od == IF attr = "_parameters" THEN _parameters[module.v]
                             ELSE _buffers[module.v]
                       here == [j \in 1..Len(od) |-> <<Join(pairs[i][1], od[j][1]), od[j][2]>>]
                       rest == MembersOf(pairs, attr, i + 1)
                   IN  Yield(rest.err, here \o rest.val)
\* _named_members(get_members_fn, prefix, recursive) on c: the members of each
\* pair are yielded before named_modules goes on, so an error of named_modules
\* comes after the members of all the pairs it yielded.
_named_members(c, attr, prefix, recursive) ==
    LET nm == named_modules(c, prefix, TRUE, recursive, RecursionLimit)
        ms == MembersOf(nm.val, attr, 1)
    IN  IF ms.err # OK THEN ms ELSE Yield(nm.err, ms.val)
named_parameters(c, prefix, recursive) == _named_members(c, "_parameters", prefix, recursive)
named_buffers(c, prefix, recursive) == _named_members(c, "_buffers", prefix, recursive)

\* ------------------------------------------------------------- path resolver
\* Ladders are strings; str.split(".") is the inverse of joining segments that
\* hold no separator.
PathNames == {"a", "b", "w"}
Segments == UNION {[1..n -> PathNames] : n \in 1..3}
RECURSIVE JoinAll(_)
JoinAll(segs) ==
    IF Len(segs) = 1 THEN segs[1]
    ELSE JoinAll(SubSeq(segs, 1, Len(segs) - 1)) \o "." \o segs[Len(segs)]
Split(ladder) == CHOOSE segs \in Segments : JoinAll(segs) = ladder
\* ladder.rsplit(".", 1)
RSplit(ladder) ==
    LET segs == Split(ladder) IN
    IF Len(segs) = 1 THEN <<ladder>>
    ELSE <<JoinAll(SubSeq(segs, 1, Len(segs) - 1)), segs[Len(segs)]>>

\* The loop of get_module over bars, from the i-th bar on, with atom at c.
RECURSIVE Climb(_, _, _)
Climb(c, bars, i) ==
    IF i > Len(bars) THEN Ok(Mod(c))
    ELSE LET h == HasAttribute(c, bars[i]) IN
         IF h.err # OK THEN h
         ELSE IF h.val = Bool(FALSE) THEN Raise(AttributeNotFound)
         ELSE LET atom == GetAttribute(c, bars[i]).val IN
              IF ~IsModule(atom) THEN Raise(TypeError)
              ELSE Climb(atom.v, bars, i + 1)
get_module(c, ladder) == Climb(c, Split(ladder), 1)

get_parameter(c, ladder) ==
    LET parts == RSplit(ladder) IN
    IF Len(parts) # 2 THEN Raise(ValueError)
    ELSE LET module == get_module(c, parts[1]) IN
         IF module.err # OK THEN module
         ELSE LET h == HasAttribute(module.val.v, parts[2]) IN
              IF h.err # OK THEN h
              ELSE IF h.val = Bool(FALSE) THEN Raise(AttributeNotFound)
              ELSE LET param == GetAttribute(module.val.v, parts[2]).val IN
                   IF ~IsParameterLike(param) THEN Raise(TypeError)
                   ELSE Ok(param)

\* ------------------------------------------------------------- reading calls
Read(call, items) ==
    /\ last' = call
    /\ out' = items
    /\ UNCHANGED <<regVars, fwdVars>>

\* list(c.named_modules(prefix, include_self, include_children))
NamedModulesCall(c, prefix, include_self, include_children) ==
    LET r == named_modules(c, prefix, include_self, include_children, RecursionLimit)
    IN  Read(Call("named_modules", c, prefix, Bool(include_self), r.err,
                  Bool(include_children)), r.val)
\* list(c.named_parameters(recursive=recursive))
NamedParametersCall(c, recursive) ==
    LET r == named_parameters(c, "", recursive)
    IN  Read(Call("named_parameters", c, "", Bool(recursive), r.err, None), r.val)
\* list(c.named_buffers(recursive=recursive))
NamedBuffersCall(c, recursive) ==
    LET r == named_buffers(c, "", recursive)
    IN  Read(Call("named_buffers", c, "", Bool(recursive), r.err, None), r.val)
\* c.get_module(ladder)
GetModuleCall(c, ladder) ==
    LET r == get_module(c, ladder)
    IN  Read(Call("get_module", c, ladder, None, r.err, r.val), <<>>)
\* c.get_parameter(ladder)
GetParameterCall(c, ladder) ==
    LET r == get_parameter(c, ladder)
    IN  Read(Call("get_parameter", c, ladder, None, r.err, r.val), <<>>)

\* ------------------------------------------------------------- walking trees
WalkSlots == {<<"R", "a">>, <<"R", "b">>, <<"A", "b">>}
Ladders == {"a", "a.b", "b.a"}
ParamLadders == {"a.b.w", "a.w", "w"}

\* Trees are built from child slots, parameters, a buffer and a plain
\* attribute, and are walked and resolved from the root R.
NextWalk ==
    \/ \E sl \in WalkSlots, m \in ChildInputs : AddModule(sl[1], sl[2], m)
    \/ \E c \in {"R", "B"}, v \in {None, Tensor("t1")} : RegisterParameter(c, "w", v)
    \/ RegisterBuffer("B", "w", Tensor("t2"))
    \/ SetAttr("R", "a", Str("s"))
    \/ \E prefix \in {"", "net"}, is \in BOOLEAN, ic \in BOOLEAN :
            NamedModulesCall("R", prefix, is, ic)
    \/ \E recursive \in BOOLEAN : NamedParametersCall("R", recursive)
    \/ \E recursive \in BOOLEAN : NamedBuffersCall("R", recursive)
    \/ \E ladder \in Ladders : GetModuleCall("R", ladder)
    \/ \E ladder \in ParamLadders : GetParameterCall("R", ladder)

SpecWalk == Init /\ [][NextWalk]_vars

\* The parameters of the tree at c in depth-first order: those of c in
\* registration order, named path.name, then the subtree of each child
\* component in child-registration order.
RECURSIVE TreeParameters(_, _, _), SubtreesFrom(_, _, _, _)
TreeParameters(c, path, depth) ==
    LET own == [j \in 1..Len(_parameters[c]) |->
                  <<Join(path, _parameters[c][j][1]), _parameters[c][j][2]>>]
    IN  IF depth = 0 THEN own ELSE own \o SubtreesFrom(c, path, 1, depth)
SubtreesFrom(c, path, i, depth) ==
    IF i > Len(_modules[c]) THEN <<>>
    ELSE (IF IsModule(_modules[c][i][2])
          THEN TreeParameters(_modules[c][i][2].v, Join(path, _modules[c][i][1]), depth - 1)
          ELSE <<>>)
         \o SubtreesFrom(c, path, i + 1, depth)

\* C3: named_parameters(recursive=True) on a root yields the parameters of the
\* whole tree in depth-first order, each named by its component path joined
\* to its name with ".", with no leading separator at the root.
C3_NamedParametersDepthFirst ==
    (last.op = "named_parameters" /\ last.arg = Bool(TRUE))
        => /\ last.err = OK
           /\ out = TreeParameters(last.c, "", Cardinality(Comp))

\* C4: named_modules(prefix, include_self=True, include_children=True) on the
\* root of any tree that add_module builds, None slots included, yields
\* (prefix, root) first, no path twice, and as many pairs as the tree has
\* components.
C4_NamedModulesCountsComponents ==
    (last.op = "named_modules" /\ last.arg = Bool(TRUE) /\ last.ret = Bool(TRUE))
        => /\ last.err = OK
           /\ Len(out) >= 1 /\ out[1] = <<last.key, Mod(last.c)>>
           /\ \A i, j \in DOMAIN out : out[i][1] = out[j][1] => i = j
           /\ Len(out) = Cardinality(SelfAndDescendants(last.c))

\* a is a child component of the root, b one of a, and w a parameter of b.
Linked ==
    /\ Has(_modules["R"], "a") /\ IsModule(Get(_modules["R"], "a"))
    /\ LET a == Get(_modules["R"], "a").v IN
       /\ Has(_modules[a], "b") /\ IsModule(Get(_modules[a], "b"))
       /\ Has(_parameters[Get(_modules[a], "b").v], "w")

\* C5: get_module("a.b") and get_parameter("a.b.w") on the root both succeed
\* exactly when a is a child of the root, b a child of a and w a parameter of
\* b; otherwise the failing call ends with AttributeNotFound (the segment names
\* nothing) or with the TypeError of a segment that is no component or of a
\* final segment that is no parameter.
C5_ResolvesExactlyLinkedPaths ==
    (last.op = "get_parameter" /\ last.c = "R" /\ last.key = "a.b.w")
        => /\ (get_module("R", "a.b").err = OK /\ last.err = OK) <=> Linked
           /\ last.err \in {OK, AttributeNotFound, TypeError}

\* C10: the child registries never form a cycle, and no traversal runs out of
\* stack.
C10_NoCycle ==
    /\ Acyclic
    /\ last.op \in {"named_modules", "named_parameters", "named_buffers"}
         => last.err # RecursionError
=============================================================================
